---- MODULE Spec2Model ----
(***************************************************************************)
(* tailr (src/tailr/src/main.rs): the seek resolver (bytes_seek_pos,       *)
(* lines_seek_pos), the reverse byte iterator BackScanner, and the copy    *)
(* loop that consumes the resolved position.                               *)
(*                                                                         *)
(* Offsets are 0-based as in the source; TLA+ sequences are 1-based, so    *)
(* the byte at file offset i is content[i + 1].                            *)
(***************************************************************************)
EXTENDS Integers, Sequences, FiniteSets, TLC

\* ------------------------------------------------------------------ bounds
MaxLen == 6          \* longest file content explored
MaxBufSize == 3      \* BUF_SIZE ranges over 1..MaxBufSize
MaxOffset == 7       \* largest count carried by a Pos
ReadBufLen == 2      \* capacity of the local read buffers (4096 in the source)
MaxNoneCalls == 2    \* calls to next explored after it has returned None
UsizeBits == 4       \* width of usize (64 on the platforms the program targets)
MaxArgLen == 3       \* longest position argument explored
MaxIoLen == 3        \* longest file explored when stream operations can fail
MaxFiles == 3        \* most file arguments explored in one run of main

\* ------------------------------------------------------------- vocabulary
NL == 10             \* b'\n'
Alphabet == {NL, 88} \* a newline and one byte that is not a newline ('X')

Min(a, b) == IF a < b THEN a ELSE b

USIZE_MAX == 2 ^ UsizeBits - 1

\* u64 and i64, kept wider than usize as on a target whose pointers are
\* narrower than 64 bits; there a file can be longer than usize::MAX
U64_MAX == 2 ^ (UsizeBits + 2) - 1
I64_MAX == 2 ^ (UsizeBits + 1) - 1

\* All byte strings of length at most n over the alphabet.
RECURSIVE Strings(_)
Strings(n) ==
    IF n = 0 THEN {<<>>}
    ELSE LET shorter == Strings(n - 1)
         IN  shorter \cup {Append(s, b) : s \in {t \in shorter : Len(t) = n - 1}, b \in Alphabet}

FromStart(n) == [from |-> "FromStart", n |-> n]
FromEnd(n) == [from |-> "FromEnd", n |-> n]
Counts == 0..MaxOffset \cup {USIZE_MAX - 1, USIZE_MAX}
Pos == {FromStart(n) : n \in Counts} \cup {FromEnd(n) : n \in Counts}

Lines(p) == [kind |-> "Lines", pos |-> p]
Bytes(p) == [kind |-> "Bytes", pos |-> p]
Mode == {Lines(p) : p \in Pos} \cup {Bytes(p) : p \in Pos}

\* std::io::SeekFrom: Start(u64) or End(i64)
SeekStart(n) == [whence |-> "Start", off |-> n]
SeekEnd(n) == [whence |-> "End", off |-> n]

\* Option<u8>, and Option<Result<u8>> when the Result is Ok
None == [some |-> FALSE, val |-> 0]
Some(b) == [some |-> TRUE, val |-> b]

NoMode == [kind |-> "None", pos |-> FromEnd(0)]
NoSeek == [whence |-> "None", off |-> 0]
NoScanner == [buf |-> <<>>, buf_pos |-> 0, buf_offset_in_file |-> 0]

\* Result<Pos>: Ok(pos), or Err with the text of the anyhow error
Ok(p) == [ok |-> TRUE, pos |-> p, err |-> <<>>]
Err(msg) == [ok |-> FALSE, pos |-> FromEnd(0), err |-> msg]
NoResult == [ok |-> FALSE, pos |-> FromEnd(0), err |-> <<"not called">>]

NoError == [msg |-> "", context |-> <<>>]
NoFailure == <<>>

VARIABLES
    content,        \* the bytes of the file behind fh
    BUF_SIZE,       \* the scanner's buffer size (a compile-time constant of a build)
    mode,           \* args.mode
    pc,             \* position in process_file or in a BackScanner unit test
    fpos,           \* stream cursor of fh
    scanner,        \* BackScanner fields: buf, buf_pos, buf_offset_in_file
    rem,            \* lines_seek_pos: newlines still to find
    skip_byte,      \* lines_seek_pos FromStart: bytes to skip
    need_bytes,     \* lines_seek_pos FromEnd: bytes wanted from the end
    seek_pos,       \* the SeekFrom the resolver returned
    stdout,         \* bytes written by copy_to_stdout
    items,          \* unit test: bytes yielded by next so far
    lastNext,       \* unit test: what the last call to next returned
    lastPeek,       \* unit test: what the last call to peek returned, and after
                    \* how many calls to next
    noneCalls,      \* number of calls to next that returned None
    overflow_checks, \* the build: integer overflow panics (debug) or wraps (release)
    faulty,         \* the environment: whether operations on the stream can fail
    error,          \* the error process_file or a unit test ended with
    failure,        \* history: <<stage, operation, OS error>> of the failed operation
    arg,            \* parse_pos: the argument string, one character per element
    opt,            \* the option the argument is the value of: "-n" or "-c"
    parsed,         \* parse_pos: the Result<Pos> it returned
    fills,          \* history: <<chunk start, bytes loaded>> of every fill_buf
    readCount,      \* history: bytes read from the stream so far
    files,          \* args.files: per argument, whether it opens and what it holds
    quiet,          \* args.quiet
    idx,            \* main: 1-based index of the file the for loop is at
    need_newline_before, \* main: a header has been written in this run
    stderr,         \* lines written by eprintln!
    marks           \* history: length of stdout at each call of process_file

vars == <<content, BUF_SIZE, mode, pc, fpos, scanner, rem, skip_byte, need_bytes,
          seek_pos, stdout, items, lastNext, lastPeek, noneCalls, overflow_checks,
          faulty, error, failure, arg, opt, parsed, fills, readCount, files, quiet,
          idx, need_newline_before, stderr, marks>>

file_len == Len(content)

\* ------------------------------------------------------------------ stream
\* Read::read on a regular file: 0 at end of file, otherwise any count from
\* 1 up to what the buffer and the file allow.
ReadSizes(cap, pos) ==
    IF cap = 0 \/ pos >= file_len THEN {0} ELSE 1..Min(cap, file_len - pos)

\* What a failing stream operation reports: <<operation, OS error>>.
OsErrors == {"Input/output error (os error 5)", "Bad file descriptor (os error 9)"}
NoFault == <<>>
Faults(op) == IF faulty THEN {<<op, e>> : e \in OsErrors} ELSE {}

\* TryFrom between integer types: what `x.try_into()?` returns for a value
\* x >= 0 and a target type whose largest value is max
ConvFault == <<"try_into", "out of range integral type conversion attempted">>
TryInto(x, max) == IF x <= max THEN [ok |-> TRUE, val |-> x] ELSE [ok |-> FALSE, val |-> 0]

\* the n bytes at file offsets pos .. pos+n-1
FileBytes(pos, n) == SubSeq(content, pos + 1, pos + n)

\* Seek::seek resolved to an absolute offset (negative: the seek fails)
SeekTarget(sf) == IF sf.whence = "Start" THEN sf.off ELSE file_len + sf.off

\* ------------------------------------------------------------- BackScanner
\* fill_buf that reads once and takes what it got
FillLoop_OneRead(buf, buf_target, pos) ==
    {[buf |-> buf, buf_target |-> buf_target, fpos |-> pos, fault |-> f] : f \in Faults("read")}
    \cup
    { [buf |-> [i \in 1..BUF_SIZE |->
                  IF buf_target < i /\ i <= buf_target + bytes_read
                  THEN content[pos + (i - buf_target)]
                  ELSE buf[i]],
       buf_target |-> buf_target + bytes_read,
       fpos |-> pos + bytes_read,
       fault |-> NoFault]
      : bytes_read \in ReadSizes(BUF_SIZE - buf_target, pos) }

\* The loop of fill_buf, entered with buf_target bytes already in buf and the
\* stream at pos: every way the reads can go, a failing read included.
RECURSIVE FillLoop(_, _, _)
FillLoop(buf, buf_target, pos) ==
    {[buf |-> buf, buf_target |-> buf_target, fpos |-> pos, fault |-> f] : f \in Faults("read")}
    \cup
    UNION { LET target == buf_target + bytes_read
                filled == [i \in 1..BUF_SIZE |->
                              IF buf_target < i /\ i <= target
                              THEN content[pos + (i - buf_target)]
                              ELSE buf[i]]
            IN  IF target = BUF_SIZE \/ bytes_read = 0
                THEN {[buf |-> filled, buf_target |-> target, fpos |-> pos + bytes_read,
                       fault |-> NoFault]}
                ELSE FillLoop(filled, target, pos + bytes_read)
          : bytes_read \in ReadSizes(BUF_SIZE - buf_target, pos) }

\* fill_buf that leaves buf_pos at BUF_SIZE whatever was read
FillBuf_FullPos(s, pos) ==
    {[scanner |-> s, fpos |-> pos, fill |-> <<>>, nread |-> 0, fault |-> f, err |-> f]
       : f \in Faults("seek")}
    \cup
    { [scanner |-> [s EXCEPT !.buf = r.buf,
                             !.buf_pos = IF r.fault = NoFault THEN BUF_SIZE ELSE @],
       fpos |-> r.fpos,
       fill |-> IF r.fault = NoFault THEN <<s.buf_offset_in_file, r.buf_target>> ELSE <<>>,
       nread |-> r.fpos - s.buf_offset_in_file,
       fault |-> r.fault,
       err |-> r.fault]
      : r \in FillLoop(s.buf, 0, s.buf_offset_in_file) }

\* fill_buf with the stream at pos: seek to the chunk start, read until the
\* buffer is full or the stream ends, point buf_pos behind the last byte
\* loaded. fault is what the stream did, err what fill_buf returns.
FillBuf(s, pos) ==
    IF ~TryInto(s.buf_offset_in_file, U64_MAX).ok
    THEN {[scanner |-> s, fpos |-> pos, fill |-> <<>>, nread |-> 0, fault |-> NoFault,
           err |-> ConvFault]}
    ELSE
    {[scanner |-> s, fpos |-> pos, fill |-> <<>>, nread |-> 0, fault |-> f, err |-> f]
       : f \in Faults("seek")}
    \cup
    { [scanner |-> [s EXCEPT !.buf = r.buf,
                             !.buf_pos = IF r.fault = NoFault THEN r.buf_target ELSE @],
       fpos |-> r.fpos,
       fill |-> IF r.fault = NoFault THEN <<s.buf_offset_in_file, r.buf_target>> ELSE <<>>,
       nread |-> r.fpos - s.buf_offset_in_file,
       fault |-> r.fault,
       err |-> r.fault]
      : r \in FillLoop(s.buf, 0, s.buf_offset_in_file) }

\* last_chunk_len without the rule for exact multiples of BUF_SIZE
LastChunkLen_Plain(len) == len % BUF_SIZE

\* last_chunk_len taken as a whole buffer whenever the file has one
LastChunkLen_Whole(len) == Min(len, BUF_SIZE)

\* BackScanner::new, the length of the rightmost chunk
LastChunkLen(len) ==
    LET last_chunk_len == len % BUF_SIZE
    IN  IF last_chunk_len = 0 /\ len >= BUF_SIZE THEN BUF_SIZE ELSE last_chunk_len

\* usize::saturating_sub
SaturatingSub(a, b) == IF a >= b THEN a - b ELSE 0

\* the length probe of new and of bytes_seek_pos failing: seek(SeekFrom::End(0))
\* leaves the cursor alone, stream_position finds it at the end
ProbeFailures ==
    {[fpos |-> fpos, fault |-> f] : f \in Faults("seek")}
    \cup {[fpos |-> file_len, fault |-> f] : f \in Faults("stream_position")}

\* BackScanner::new that forgets to load the rightmost chunk
New_NoFill ==
    {[scanner |-> [buf |-> [i \in 1..BUF_SIZE |-> 0],
                   buf_pos |-> BUF_SIZE,
                   buf_offset_in_file |-> SaturatingSub(file_len, LastChunkLen(file_len))],
      fpos |-> file_len,
      fill |-> <<>>, nread |-> 0, fault |-> NoFault, err |-> NoFault]}

\* BackScanner::new; the stream length is probed as a u64 and converted
New ==
    {[scanner |-> NoScanner, fpos |-> p.fpos, fill |-> <<>>, nread |-> 0,
      fault |-> p.fault, err |-> p.fault] : p \in ProbeFailures}
    \cup
    (LET len == TryInto(file_len, USIZE_MAX)
     IN  IF ~len.ok
         THEN {[scanner |-> NoScanner, fpos |-> file_len, fill |-> <<>>, nread |-> 0,
                fault |-> NoFault, err |-> ConvFault]}
         ELSE FillBuf([buf |-> [i \in 1..BUF_SIZE |-> 0],
                       buf_pos |-> BUF_SIZE,
                       buf_offset_in_file |-> SaturatingSub(len.val, LastChunkLen(len.val))],
                      file_len))

\* a peek that takes the byte it shows
Peeked_Consuming(s) == [s EXCEPT !.buf_pos = IF @ > 0 THEN @ - 1 ELSE 0]

\* BackScanner::peek, the scanner it leaves: no field is assigned
Peeked(s) == s

\* BackScanner::peek, the value it returns
Peek(s) == IF s.buf_pos > 0 THEN Some(s.buf[s.buf_pos]) ELSE None

\* The tail of next, on the scanner r.scanner: Some(Err(e)) when the refill
\* failed, else buf_pos -= 1 and the byte there. A buf_pos of 0 cannot be
\* decremented (the arithmetic panics, or wraps into an index out of range).
Take(r) ==
    IF r.err # NoFault
    THEN [scanner |-> r.scanner, fpos |-> r.fpos, fill |-> r.fill, nread |-> r.nread,
          fault |-> r.fault, err |-> r.err, item |-> None, panic |-> FALSE]
    ELSE IF r.scanner.buf_pos = 0
         THEN [scanner |-> r.scanner, fpos |-> r.fpos, fill |-> r.fill, nread |-> r.nread,
               fault |-> r.fault, err |-> NoFault, item |-> None, panic |-> TRUE]
         ELSE [scanner |-> [r.scanner EXCEPT !.buf_pos = @ - 1], fpos |-> r.fpos,
               fill |-> r.fill, nread |-> r.nread, fault |-> r.fault, err |-> NoFault,
               item |-> Some(r.scanner.buf[r.scanner.buf_pos]), panic |-> FALSE]

\* the scanner as it is, nothing read
Idle(s, pos) ==
    [scanner |-> s, fpos |-> pos, fill |-> <<>>, nread |-> 0, fault |-> NoFault, err |-> NoFault]

\* next that ends the iteration when the refill fails
IterNext_EndOnError(s, pos) ==
    IF s.buf_pos = 0
    THEN IF s.buf_offset_in_file = 0
         THEN {[scanner |-> s, fpos |-> pos, fill |-> <<>>, nread |-> 0, fault |-> NoFault,
                err |-> NoFault, item |-> None, panic |-> FALSE]}
         ELSE IF s.buf_offset_in_file < BUF_SIZE \/ (s.buf_offset_in_file - BUF_SIZE) % BUF_SIZE # 0
              THEN {[scanner |-> s, fpos |-> pos, fill |-> <<>>, nread |-> 0, fault |-> NoFault,
                     err |-> NoFault, item |-> None, panic |-> TRUE]}
              ELSE {Take(r) : r \in {x \in FillBuf([s EXCEPT !.buf_offset_in_file = @ - BUF_SIZE], pos)
                                        : x.err = NoFault}}
                   \cup {[scanner |-> x.scanner, fpos |-> x.fpos, fill |-> <<>>, nread |-> x.nread,
                          fault |-> x.fault, err |-> NoFault, item |-> None, panic |-> FALSE]
                           : x \in {y \in FillBuf([s EXCEPT !.buf_offset_in_file = @ - BUF_SIZE], pos)
                                       : y.err # NoFault}}
    ELSE {Take(Idle(s, pos))}

\* next that loads the first chunk again before it returns None
IterNext_RefillAtEnd(s, pos) ==
    IF s.buf_pos = 0
    THEN IF s.buf_offset_in_file = 0
         THEN {[scanner |-> x.scanner, fpos |-> x.fpos, fill |-> x.fill, nread |-> x.nread,
                fault |-> x.fault, err |-> x.err, item |-> None, panic |-> FALSE]
                 : x \in FillBuf(s, pos)}
         ELSE IF s.buf_offset_in_file < BUF_SIZE \/ (s.buf_offset_in_file - BUF_SIZE) % BUF_SIZE # 0
              THEN {[scanner |-> s, fpos |-> pos, fill |-> <<>>, nread |-> 0, fault |-> NoFault,
                     err |-> NoFault, item |-> None, panic |-> TRUE]}
              ELSE {Take(r) : r \in FillBuf([s EXCEPT !.buf_offset_in_file = @ - BUF_SIZE], pos)}
    ELSE {Take(Idle(s, pos))}

\* Iterator::next of BackScanner with the stream at pos. fill is <<>> when no
\* refill was completed; err is the error of Some(Err(e)).
IterNext(s, pos) ==
    IF s.buf_pos = 0
    THEN IF s.buf_offset_in_file = 0
         THEN {[scanner |-> s, fpos |-> pos, fill |-> <<>>, nread |-> 0, fault |-> NoFault,
                err |-> NoFault, item |-> None, panic |-> FALSE]}
         ELSE IF s.buf_offset_in_file < BUF_SIZE \/ (s.buf_offset_in_file - BUF_SIZE) % BUF_SIZE # 0
              THEN {[scanner |-> s, fpos |-> pos, fill |-> <<>>, nread |-> 0, fault |-> NoFault,
                     err |-> NoFault, item |-> None, panic |-> TRUE]}
              ELSE {Take(r) : r \in FillBuf([s EXCEPT !.buf_offset_in_file = @ - BUF_SIZE], pos)}
    ELSE {Take(Idle(s, pos))}

\* history bookkeeping shared by the actions that may refill
Filled(fill) == IF fill = <<>> THEN fills ELSE Append(fills, fill)

\* an error that replaces the io::Error by a text of its own
IoErr_Generic(f) == [msg |-> "I/O error", context |-> <<>>]

\* the anyhow::Error that `?` makes of an io::Error: its text is the OS
\* error's description, and no context is attached
IoErr(f) == [msg |-> f[2], context |-> <<>>]

\* ---------------------------------------------------------- seek resolver
\* bytes_seek_pos without the clamp on the FromEnd arm
BytesSeek_NoClampEnd(pos, len) ==
    IF pos.from = "FromStart"
    THEN SeekStart(Min(len, pos.n))
    ELSE SeekEnd(-pos.n)

\* bytes_seek_pos without the clamp on the FromStart arm
BytesSeek_NoClampStart(pos, len) ==
    IF pos.from = "FromStart"
    THEN SeekStart(pos.n)
    ELSE SeekEnd(-Min(len, pos.n))

\* bytes_seek_pos with the FromEnd displacement not negated
BytesSeek_PositiveEnd(pos, len) ==
    IF pos.from = "FromStart"
    THEN SeekStart(Min(len, pos.n))
    ELSE SeekEnd(Min(len, pos.n))

\* bytes_seek_pos, the conversions on the way: the probed length into usize,
\* then min(len, offset) into u64 for Start, into i64 for End
BytesConv(pos, probed) ==
    LET len == TryInto(probed, USIZE_MAX)
    IN  IF ~len.ok THEN len
        ELSE TryInto(Min(len.val, pos.n), IF pos.from = "FromStart" THEN U64_MAX ELSE I64_MAX)

\* bytes_seek_pos, given the probed length
BytesSeek(pos, len) ==
    IF pos.from = "FromStart"
    THEN SeekStart(Min(len, pos.n))
    ELSE SeekEnd(-Min(len, pos.n))

\* match pos without the FromEnd(0) arm
MatchPos_NoZeroArm(pos) ==
    IF pos.from = "FromStart" THEN "FromStart" ELSE "FromEnd"

\* lines_seek_pos: the arm of `match pos` that is taken
MatchPos(pos) ==
    IF pos.from = "FromStart" THEN "FromStart"
    ELSE IF pos = FromEnd(0) THEN "FromEndZero"
    ELSE "FromEnd"

\* ForBytes with skip_byte counted after the newline test, so that the break
\* leaves the newline itself uncounted
RECURSIVE ForBytes_CountAfterBreak(_, _, _)
ForBytes_CountAfterBreak(bytes, r, skip) ==
    IF bytes = <<>> THEN [rem |-> r, skip_byte |-> skip]
    ELSE IF Head(bytes) = NL
         THEN IF r - 1 = 0
              THEN [rem |-> 0, skip_byte |-> skip]
              ELSE ForBytes_CountAfterBreak(Tail(bytes), r - 1, skip + 1)
         ELSE ForBytes_CountAfterBreak(Tail(bytes), r, skip + 1)

\* ForBytes with rem counted down on every byte instead of on newlines
RECURSIVE ForBytes_EveryByte(_, _, _)
ForBytes_EveryByte(bytes, r, skip) ==
    IF bytes = <<>> THEN [rem |-> r, skip_byte |-> skip]
    ELSE IF r - 1 = 0
         THEN [rem |-> 0, skip_byte |-> skip + 1]
         ELSE ForBytes_EveryByte(Tail(bytes), r - 1, skip + 1)

\* lines_seek_pos FromStart: the for loop over the bytes of one read
RECURSIVE ForBytes(_, _, _)
ForBytes(bytes, r, skip) ==
    IF bytes = <<>> THEN [rem |-> r, skip_byte |-> skip]
    ELSE IF Head(bytes) = NL
         THEN IF r - 1 = 0
              THEN [rem |-> 0, skip_byte |-> skip + 1]
              ELSE ForBytes(Tail(bytes), r - 1, skip + 1)
         ELSE ForBytes(Tail(bytes), r, skip + 1)

\* InitialRem without the peek adjustment
InitialRem_NoPeek(offset, peeked) == offset

\* InitialRem with the adjustment made whatever the last byte is
InitialRem_Always(offset, peeked) == offset + 1

\* lines_seek_pos FromEnd: rem after the peek at the last byte
InitialRem(offset, peeked) == IF peeked = Some(NL) THEN offset + 1 ELSE offset

\* usize arithmetic: the result does not fit / the result a wrapping build keeps
Overflows(x) == x < 0 \/ x > USIZE_MAX
Wrap(x) == x % (USIZE_MAX + 1)

\* the loop body with need_bytes counted before the newline test
ForByte_CountsNewline(byte, r, need) ==
    IF byte = NL
    THEN IF Wrap(r - 1) = 0
         THEN [rem |-> 0, need_bytes |-> need + 1, break |-> TRUE, overflow |-> FALSE]
         ELSE [rem |-> Wrap(r - 1), need_bytes |-> need + 1, break |-> FALSE,
               overflow |-> Overflows(r - 1)]
    ELSE [rem |-> r, need_bytes |-> need + 1, break |-> FALSE, overflow |-> FALSE]

\* lines_seek_pos FromEnd: the body of the for loop for one yielded byte;
\* overflow tells that `rem -= 1` left the range of usize
ForByte(byte, r, need) ==
    IF byte = NL
    THEN IF Wrap(r - 1) = 0
         THEN [rem |-> 0, need_bytes |-> need, break |-> TRUE, overflow |-> FALSE]
         ELSE [rem |-> Wrap(r - 1), need_bytes |-> need + 1, break |-> FALSE,
               overflow |-> Overflows(r - 1)]
    ELSE [rem |-> r, need_bytes |-> need + 1, break |-> FALSE, overflow |-> FALSE]

\* copy_to_stdout without its seek: reading starts where the cursor is
CopyStart_NoSeek(sf, cursor) == cursor

\* copy_to_stdout: fh.seek(*seek) puts the cursor at the sought position,
\* wherever it was
CopyStart(sf, cursor) == SeekTarget(sf)

\* copy_to_stdout: the bytes from the sought position to the end of the file
CopyBytes(target) ==
    IF target >= file_len THEN <<>> ELSE FileBytes(target, file_len - target)

\* ---------------------------------------------------------------- parse_pos
\* the characters position arguments are built from
Chars == {"+", "-", "0", "1", "3", "5", ".", "f"}

\* char::to_digit(10): the digit's value, or -1 for no digit
ToDigit(ch) ==
    CASE ch = "0" -> 0 [] ch = "1" -> 1 [] ch = "3" -> 3 [] ch = "5" -> 5 [] OTHER -> -1

\* All argument strings of length at most n.
RECURSIVE ArgStrings(_)
ArgStrings(n) ==
    IF n = 0 THEN {<<>>}
    ELSE LET shorter == ArgStrings(n - 1)
         IN  shorter \cup {Append(s, ch) : s \in {t \in shorter : Len(t) = n - 1}, ch \in Chars}

\* usize::from_str, the loop over the digits: checked_mul, to_digit, checked_add
RECURSIVE ParseDigits(_, _)
ParseDigits(digits, result) ==
    IF digits = <<>> THEN [ok |-> TRUE, val |-> result, err |-> ""]
    ELSE LET x == ToDigit(Head(digits))
         IN  IF x < 0
             THEN [ok |-> FALSE, val |-> 0, err |-> "invalid digit found in string"]
             ELSE IF result * 10 > USIZE_MAX \/ result * 10 + x > USIZE_MAX
                  THEN [ok |-> FALSE, val |-> 0, err |-> "number too large to fit in target type"]
                  ELSE ParseDigits(Tail(digits), result * 10 + x)

\* str::parse::<usize>: an optional leading '+' is accepted, '-' is not
ParseUsize(src) ==
    IF src = <<>>
    THEN [ok |-> FALSE, val |-> 0, err |-> "cannot parse integer from empty string"]
    ELSE IF Len(src) = 1 /\ Head(src) \in {"+", "-"}
         THEN [ok |-> FALSE, val |-> 0, err |-> "invalid digit found in string"]
         ELSE IF Head(src) = "+"
              THEN ParseDigits(Tail(src), 0)
              ELSE ParseDigits(src, 0)

\* parse_pos with `num - 1` computed for every num, wrapping at 0
ParsePos_NoZeroGuard(a) ==
    IF a = <<>> THEN Err(<<"Position arg can't be empty">>)
    ELSE LET from_start == Head(a) = "+"
             num == ParseUsize(IF Head(a) \in {"+", "-"} THEN Tail(a) ELSE a)
         IN  IF ~num.ok THEN Err(<<a, num.err>>)
             ELSE IF from_start
                  THEN Ok(FromStart((num.val - 1) % (USIZE_MAX + 1)))
                  ELSE Ok(FromEnd(num.val))

\* parse_pos without the arm that strips a leading '-'
ParsePos_NoMinusArm(a) ==
    IF a = <<>> THEN Err(<<"Position arg can't be empty">>)
    ELSE LET from_start == Head(a) = "+"
             num == ParseUsize(IF Head(a) = "+" THEN Tail(a) ELSE a)
         IN  IF ~num.ok THEN Err(<<a, num.err>>)
             ELSE IF from_start
                  THEN Ok(FromStart(IF num.val > 0 THEN num.val - 1 ELSE 0))
                  ELSE Ok(FromEnd(num.val))

\* parse_pos; the error text is "{arg}: {err}"
ParsePos(a) ==
    IF a = <<>> THEN Err(<<"Position arg can't be empty">>)
    ELSE LET from_start == Head(a) = "+"
             num == ParseUsize(IF Head(a) \in {"+", "-"} THEN Tail(a) ELSE a)
         IN  IF ~num.ok THEN Err(<<a, num.err>>)
             ELSE IF from_start
                  THEN Ok(FromStart(IF num.val > 0 THEN num.val - 1 ELSE 0))
                  ELSE Ok(FromEnd(num.val))


\* ------------------------------------------------------------------- Init
\* what every run starts from, whatever it runs and wherever the cursor is
Unstarted ==
    /\ scanner = NoScanner
    /\ rem = 0
    /\ skip_byte = 0
    /\ need_bytes = 0
    /\ seek_pos = NoSeek
    /\ stdout = <<>>
    /\ items = <<>>
    /\ lastNext = <<>>
    /\ lastPeek = <<>>
    /\ noneCalls = 0
    /\ error = NoError
    /\ failure = NoFailure
    /\ parsed = NoResult
    /\ fills = <<>>
    /\ readCount = 0
    /\ need_newline_before = FALSE
    /\ stderr = <<>>
    /\ marks = <<>>

\* a stream just opened, or a Cursor just built: the cursor is at offset 0
Fresh == fpos = 0 /\ Unstarted

\* a run of process_file or of a unit test alone: main's loop is not there
NoMain == files = <<>> /\ quiet = FALSE /\ idx = 0 /\ opt = "-n"

\* process_file right after File::open, or a unit test about to build a
\* BackScanner over a Cursor; both streams start at offset 0 and no
\* operation on them fails.
Init ==
    /\ content \in Strings(MaxLen)
    /\ BUF_SIZE \in 1..MaxBufSize
    /\ overflow_checks \in BOOLEAN
    /\ faulty = FALSE
    /\ \/ pc = "resolve" /\ mode \in Mode
       \/ pc = "test_new" /\ mode = NoMode
    /\ arg = <<>>
    /\ NoMain
    /\ Fresh

testVars == <<items, lastNext, lastPeek, noneCalls>>
lineVars == <<rem, skip_byte, need_bytes>>
argVars == <<arg, opt, parsed>>
mainVars == <<files, quiet, idx, need_newline_before, stderr, marks>>
envVars == <<content, BUF_SIZE, overflow_checks, faulty, mode, mainVars>>

\* ---------------------------------------------------------------- actions
\* an operation of the given stage failed with fault f, or none did
Noted(stage, f) == IF f = NoFault THEN failure ELSE <<stage>> \o f

\* process_file, Mode::Bytes: bytes_seek_pos
BytesSeekPos ==
    /\ pc = "resolve"
    /\ mode.kind = "Bytes"
    /\ \/ /\ fpos' = file_len
          /\ IF BytesConv(mode.pos, file_len).ok
             THEN /\ seek_pos' = BytesSeek(mode.pos, file_len)
                  /\ pc' = "copy"
                  /\ UNCHANGED error
             ELSE /\ pc' = "error"
                  /\ error' = IoErr(ConvFault)
                  /\ UNCHANGED seek_pos
          /\ UNCHANGED failure
       \/ \E p \in ProbeFailures :
             /\ fpos' = p.fpos
             /\ pc' = "error"
             /\ error' = IoErr(p.fault)
             /\ failure' = Noted("resolve", p.fault)
             /\ UNCHANGED seek_pos
    /\ UNCHANGED <<argVars, envVars, scanner, lineVars, stdout, testVars, fills, readCount>>

\* lines_seek_pos, Pos::FromStart: the locals before the loop
LinesFromStart ==
    /\ pc = "resolve"
    /\ mode.kind = "Lines"
    /\ MatchPos(mode.pos) = "FromStart"
    /\ rem' = mode.pos.n
    /\ skip_byte' = 0
    /\ pc' = "fwd_loop"
    /\ UNCHANGED <<argVars, envVars, fpos, scanner, need_bytes, seek_pos, stdout,
                   testVars, fills, readCount, error, failure>>

\* lines_seek_pos, Pos::FromStart: Ok(SeekFrom::Start(skip_byte.try_into()?))
Returned(start) ==
    IF start.ok
    THEN seek_pos' = SeekStart(start.val) /\ pc' = "copy" /\ UNCHANGED error
    ELSE pc' = "error" /\ error' = IoErr(ConvFault) /\ UNCHANGED seek_pos

\* lines_seek_pos, Pos::FromStart: one iteration of 'outer; `skip_byte += 1`
\* panics or wraps when it leaves the range of usize
ForwardLoop ==
    /\ pc = "fwd_loop"
    /\ IF rem = 0
       THEN /\ Returned(TryInto(skip_byte, U64_MAX))
            /\ UNCHANGED <<fpos, rem, skip_byte, readCount, failure>>
       ELSE \/ \E bytes_read \in ReadSizes(ReadBufLen, fpos) :
                  LET r == ForBytes(FileBytes(fpos, bytes_read), rem, skip_byte)
                  IN  /\ fpos' = fpos + bytes_read
                      /\ readCount' = readCount + bytes_read
                      /\ rem' = r.rem
                      /\ skip_byte' = Wrap(r.skip_byte)
                      /\ IF Overflows(r.skip_byte) /\ overflow_checks
                         THEN pc' = "panic" /\ UNCHANGED <<seek_pos, error>>
                         ELSE IF bytes_read = 0 \/ r.rem = 0
                         THEN Returned(TryInto(Wrap(r.skip_byte), U64_MAX))
                         ELSE pc' = "fwd_loop" /\ UNCHANGED <<seek_pos, error>>
                      /\ UNCHANGED failure
            \/ \E f \in Faults("read") :
                  /\ pc' = "error"
                  /\ error' = IoErr(f)
                  /\ failure' = Noted("resolve", f)
                  /\ UNCHANGED <<fpos, rem, skip_byte, readCount, seek_pos>>
    /\ UNCHANGED <<argVars, envVars, scanner, need_bytes, stdout, testVars, fills>>

\* lines_seek_pos, Pos::FromEnd(0)
LinesFromEndZero ==
    /\ pc = "resolve"
    /\ mode.kind = "Lines"
    /\ MatchPos(mode.pos) = "FromEndZero"
    /\ seek_pos' = SeekEnd(0)
    /\ pc' = "copy"
    /\ UNCHANGED <<argVars, envVars, fpos, scanner, lineVars, stdout, testVars,
                   fills, readCount, error, failure>>

\* lines_seek_pos, Pos::FromEnd(offset): the scanner, the locals and the
\* peek; `rem += 1` panics or wraps when it leaves the range of usize
LinesFromEnd ==
    /\ pc = "resolve"
    /\ mode.kind = "Lines"
    /\ MatchPos(mode.pos) = "FromEnd"
    /\ \E r \in New :
          /\ fpos' = r.fpos
          /\ fills' = Filled(r.fill)
          /\ readCount' = readCount + r.nread
          /\ failure' = Noted("resolve", r.fault)
          /\ IF r.err # NoFault
             THEN /\ pc' = "error" /\ error' = IoErr(r.err)
                  /\ scanner' = r.scanner
                  /\ UNCHANGED <<rem, need_bytes>>
             ELSE LET initial == InitialRem(mode.pos.n, Peek(r.scanner))
                  IN  /\ scanner' = Peeked(r.scanner)
                      /\ rem' = Wrap(initial)
                      /\ need_bytes' = 0
                      /\ pc' = IF Overflows(initial) /\ overflow_checks
                               THEN "panic" ELSE "back_loop"
                      /\ UNCHANGED error
    /\ UNCHANGED <<argVars, envVars, skip_byte, seek_pos, stdout, testVars>>

\* lines_seek_pos, Pos::FromEnd(offset): one iteration of the for loop
BackwardLoop ==
    /\ pc = "back_loop"
    /\ \E r \in IterNext(scanner, fpos) :
          /\ scanner' = r.scanner
          /\ fpos' = r.fpos
          /\ fills' = Filled(r.fill)
          /\ readCount' = readCount + r.nread
          /\ failure' = Noted("resolve", r.fault)
          /\ IF r.panic
             THEN pc' = "panic" /\ UNCHANGED <<rem, need_bytes, seek_pos, error>>
             ELSE IF r.err # NoFault
             THEN pc' = "error" /\ error' = IoErr(r.err)
                  /\ UNCHANGED <<rem, need_bytes, seek_pos>>
             ELSE IF ~r.item.some
             THEN /\ seek_pos' = SeekEnd(-need_bytes)
                  /\ pc' = "copy"
                  /\ UNCHANGED <<rem, need_bytes, error>>
             ELSE LET b == ForByte(r.item.val, rem, need_bytes)
                  IN  IF b.overflow /\ overflow_checks
                      THEN pc' = "panic" /\ UNCHANGED <<rem, need_bytes, seek_pos, error>>
                      ELSE /\ rem' = b.rem
                           /\ need_bytes' = b.need_bytes
                           /\ IF b.break
                              THEN seek_pos' = SeekEnd(-b.need_bytes) /\ pc' = "copy"
                              ELSE seek_pos' = seek_pos /\ pc' = "back_loop"
                           /\ UNCHANGED error
    /\ UNCHANGED <<argVars, envVars, skip_byte, stdout, testVars>>

\* process_file: copy_to_stdout on the resolved position. A seek before the
\* start of the file fails; a read or a write can fail after any part of the
\* bytes has been written.
CopyToStdout ==
    /\ pc = "copy"
    /\ LET target == CopyStart(seek_pos, fpos)
       IN  \/ /\ target >= 0
              /\ stdout' = stdout \o CopyBytes(target)
              /\ fpos' = target + Len(CopyBytes(target))
              /\ readCount' = readCount + Len(CopyBytes(target))
              /\ pc' = "done"
              /\ UNCHANGED <<error, failure>>
           \/ \E f \in Faults("seek") \cup
                       (IF target < 0 THEN {<<"seek", "Invalid argument (os error 22)">>} ELSE {}) :
                 /\ pc' = "error"
                 /\ error' = IoErr(f)
                 /\ failure' = Noted("copy", f)
                 /\ UNCHANGED <<fpos, stdout, readCount>>
           \/ /\ target >= 0
              /\ \E f \in Faults("read") \cup Faults("write"), k \in 0..Len(CopyBytes(target)) :
                    /\ stdout' = stdout \o SubSeq(CopyBytes(target), 1, k)
                    /\ fpos' = target + k
                    /\ readCount' = readCount + k
                    /\ pc' = "error"
                    /\ error' = IoErr(f)
                    /\ failure' = Noted("copy", f)
    /\ UNCHANGED <<argVars, envVars, scanner, lineVars, seek_pos, testVars, fills>>

\* unit tests: BackScanner::new(&mut fh)?
TestNew ==
    /\ pc = "test_new"
    /\ \E r \in New :
          /\ scanner' = r.scanner
          /\ fpos' = r.fpos
          /\ fills' = Filled(r.fill)
          /\ readCount' = readCount + r.nread
          /\ failure' = Noted("test", r.fault)
          /\ IF r.err # NoFault
             THEN pc' = "error" /\ error' = IoErr(r.err)
             ELSE pc' = "test" /\ UNCHANGED error
    /\ UNCHANGED <<argVars, envVars, lineVars, seek_pos, stdout, testVars>>

\* unit tests: one call to next; an Err item ends the test (r.unwrap())
TestNext ==
    /\ pc = "test"
    /\ noneCalls < MaxNoneCalls
    /\ \E r \in IterNext(scanner, fpos) :
          /\ scanner' = r.scanner
          /\ fpos' = r.fpos
          /\ fills' = Filled(r.fill)
          /\ readCount' = readCount + r.nread
          /\ failure' = Noted("test", r.fault)
          /\ IF r.panic
             THEN pc' = "panic" /\ UNCHANGED <<items, lastNext, noneCalls, error>>
             ELSE IF r.err # NoFault
             THEN pc' = "error" /\ error' = IoErr(r.err)
                  /\ UNCHANGED <<items, lastNext, noneCalls>>
             ELSE /\ pc' = "test"
                  /\ lastNext' = <<r.item>>
                  /\ items' = IF r.item.some THEN Append(items, r.item.val) ELSE items
                  /\ noneCalls' = IF r.item.some THEN noneCalls ELSE noneCalls + 1
                  /\ UNCHANGED error
    /\ UNCHANGED <<argVars, envVars, lineVars, seek_pos, stdout, lastPeek>>

\* unit tests: one call to peek
TestPeek ==
    /\ pc = "test"
    /\ lastPeek' = <<[result |-> Peek(scanner), after |-> Len(items) + noneCalls]>>
    /\ scanner' = Peeked(scanner)
    /\ UNCHANGED <<argVars, envVars, pc, fpos, lineVars, seek_pos, stdout,
                   items, lastNext, noneCalls, fills, readCount, error, failure>>

Next ==
    \/ BytesSeekPos
    \/ LinesFromStart
    \/ ForwardLoop
    \/ LinesFromEndZero
    \/ LinesFromEnd
    \/ BackwardLoop
    \/ CopyToStdout
    \/ TestNew
    \/ TestNext
    \/ TestPeek

Spec == Init /\ [][Next]_vars

\* -------------------------------------------------- failing stream operations
\* The same runs over streams whose operations can fail, on smaller files.
InitIO ==
    /\ content \in Strings(MaxIoLen)
    /\ BUF_SIZE \in 1..MaxBufSize
    /\ overflow_checks = TRUE
    /\ faulty = TRUE
    /\ \/ pc = "resolve" /\ mode \in {m \in Mode : m.pos.n <= MaxIoLen + 1}
       \/ pc = "test_new" /\ mode = NoMode
    /\ arg = <<>>
    /\ NoMain
    /\ Fresh

SpecIO == InitIO /\ [][Next]_vars

\* ------------------------------------------------- the resolver on its own
\* bytes_seek_pos and lines_seek_pos take any open stream: the resolver
\* entered with the cursor anywhere in the file.
InitCursor ==
    /\ content \in Strings(MaxIoLen)
    /\ fpos \in 0..file_len
    /\ BUF_SIZE \in 1..MaxBufSize
    /\ overflow_checks \in BOOLEAN
    /\ faulty = FALSE
    /\ pc = "resolve"
    /\ mode \in {m \in Mode : m.pos.n <= MaxIoLen + 1}
    /\ arg = <<>>
    /\ NoMain
    /\ Unstarted

NextResolve ==
    \/ BytesSeekPos
    \/ LinesFromStart
    \/ ForwardLoop
    \/ LinesFromEndZero
    \/ LinesFromEnd
    \/ BackwardLoop
    \/ CopyToStdout

SpecCursor == InitCursor /\ [][NextResolve]_vars

\* ---------------------------------------------------------- long files
\* The resolver on files about as long as usize::MAX and longer: bytes that
\* are no newline, with a newline last, first or nowhere.
LongLengths == (USIZE_MAX - 1)..(USIZE_MAX + 2)
LongContents ==
    UNION {{[i \in 1..n |-> 88],
            [i \in 1..n |-> IF i = n THEN NL ELSE 88],
            [i \in 1..n |-> IF i = 1 THEN NL ELSE 88]} : n \in LongLengths}

InitLong ==
    /\ content \in LongContents \cup Strings(2)
    /\ BUF_SIZE = MaxBufSize
    /\ overflow_checks \in BOOLEAN
    /\ faulty = FALSE
    /\ pc = "resolve"
    /\ mode \in Mode
    /\ arg = <<>>
    /\ NoMain
    /\ Fresh

SpecLong == InitLong /\ [][NextResolve]_vars

\* ---------------------------------------------------- parse_pos on its own
\* clap hands one -n or -c value to parse_pos (value_parser=parse_pos).
InitParse ==
    /\ arg \in ArgStrings(MaxArgLen)
    /\ pc = "parse"
    /\ content = <<>>
    /\ BUF_SIZE = 1
    /\ overflow_checks = TRUE
    /\ faulty = FALSE
    /\ mode = NoMode
    /\ NoMain
    /\ Fresh

ParseArg ==
    /\ pc = "parse"
    /\ parsed' = ParsePos(arg)
    /\ pc' = "parsed"
    /\ UNCHANGED <<arg, opt, envVars, fpos, scanner, lineVars, seek_pos, stdout,
                   testVars, fills, readCount, error, failure>>

NextParse == ParseArg

SpecParse == InitParse /\ [][NextParse]_vars

\* ------------------------------------------------------------------- main
\* The file arguments of a run: argument i is named by one letter, and either
\* cannot be opened or holds one of a few contents.
FileName(i) == <<96 + i>>
MainContents == {<<>>, <<88, NL>>, <<88, NL, 88>>, <<NL, 88, NL>>}
FileArgs == {[openable |-> FALSE, content |-> <<>>]}
            \cup {[openable |-> TRUE, content |-> c] : c \in MainContents}
MainModes == {Lines(FromEnd(0)), Lines(FromEnd(1)), Lines(FromStart(1)),
              Bytes(FromEnd(1)), Bytes(FromStart(0))}

\* println!("==> {file} <==")
HeaderLine(name) == <<61, 61, 62, 32>> \o name \o <<32, 60, 61, 61, NL>>

\* eprintln!("{file}: {e}")
ErrLine(name, e) == <<name, ": ", e.msg>>

\* File::open on a path that cannot be opened
OpenFault == <<"open", "No such file or directory (os error 2)">>

\* headers for every count of files
NeedsHeader_AnyCount(q, nfiles) == ~q

\* process_file: whether a header is written
NeedsHeader(q, nfiles) == ~q /\ nfiles > 1

\* a loop that an error ends
NextFile_StopOnError(i, failed, nfiles) == IF failed THEN nfiles + 1 ELSE i + 1

\* main: the for loop goes on to the next file whatever process_file returned
NextFile(i, failed, nfiles) == i + 1

\* main after parse_args
InitMain ==
    /\ files \in UNION {[1..n -> FileArgs] : n \in 1..MaxFiles}
    /\ quiet \in BOOLEAN
    /\ mode \in MainModes
    /\ BUF_SIZE \in {1, MaxBufSize}
    /\ overflow_checks = TRUE
    /\ faulty = FALSE
    /\ content = <<>>
    /\ arg = <<>>
    /\ opt = "-n"
    /\ idx = 1
    /\ pc = "main"
    /\ Fresh

\* process_file up to the match on args.mode: File::open, then the header
ProcessFileOpen ==
    /\ pc = "main"
    /\ idx <= Len(files)
    /\ marks' = Append(marks, Len(stdout))
    /\ IF ~files[idx].openable
       THEN /\ error' = IoErr(OpenFault)
            /\ failure' = Noted("open", OpenFault)
            /\ pc' = "error"
            /\ UNCHANGED <<content, stdout, need_newline_before, fpos, scanner,
                           lineVars, seek_pos, fills, readCount>>
       ELSE /\ content' = files[idx].content
            /\ fpos' = 0
            /\ scanner' = NoScanner
            /\ rem' = 0 /\ skip_byte' = 0 /\ need_bytes' = 0
            /\ seek_pos' = NoSeek
            /\ fills' = <<>>
            /\ readCount' = 0
            /\ error' = NoError
            /\ failure' = NoFailure
            /\ IF NeedsHeader(quiet, Len(files))
               THEN /\ stdout' = stdout
                                 \o (IF need_newline_before THEN <<NL>> ELSE <<>>)
                                 \o HeaderLine(FileName(idx))
                    /\ need_newline_before' = TRUE
               ELSE UNCHANGED <<stdout, need_newline_before>>
            /\ pc' = "resolve"
    /\ UNCHANGED <<argVars, testVars, BUF_SIZE, overflow_checks, faulty, mode,
                   files, quiet, idx, stderr>>

\* main: process_file has returned; its error, if any, is printed and dropped
MainNextFile ==
    /\ idx >= 1
    /\ pc \in {"done", "error"}
    /\ stderr' = IF pc = "error"
                 THEN Append(stderr, ErrLine(FileName(idx), error))
                 ELSE stderr
    /\ idx' = NextFile(idx, pc = "error", Len(files))
    /\ pc' = "main"
    /\ UNCHANGED <<argVars, testVars, content, BUF_SIZE, overflow_checks, faulty,
                   mode, files, quiet, need_newline_before, marks, fpos, scanner,
                   lineVars, seek_pos, stdout, fills, readCount, error, failure>>

\* main: Ok(()) after the last file
MainReturn ==
    /\ pc = "main"
    /\ idx > Len(files)
    /\ pc' = "exit"
    /\ UNCHANGED <<argVars, testVars, envVars, fpos, scanner, lineVars, seek_pos,
                   stdout, fills, readCount, error, failure>>

NextMain ==
    \/ ProcessFileOpen
    \/ BytesSeekPos
    \/ LinesFromStart
    \/ ForwardLoop
    \/ LinesFromEndZero
    \/ LinesFromEnd
    \/ BackwardLoop
    \/ CopyToStdout
    \/ MainNextFile
    \/ MainReturn

SpecMain == InitMain /\ [][NextMain]_vars

\* ------------------------------------------------------------ command line
\* clap names an option by its long flag and value name in its messages
OptionName(o) == IF o = "-c" THEN "--bytes <BYTES>" ELSE "--lines <LINES>"

\* clap's report of a value its value_parser rejected; err holds the pieces
\* of parse_pos's error text
ClapError(o, a, err) ==
    <<"error: invalid value '", a, "' for '", OptionName(o), "': ">> \o err

\* Mode::Bytes(bytes) if -c was given, else Mode::Lines(lines)
ModeOf(o, pos) == IF o = "-c" THEN Bytes(pos) ELSE Lines(pos)

\* the program started with one -n or -c value and a few files
CliFiles == {<<[openable |-> TRUE, content |-> <<88, NL, 88, NL>>]>>,
             <<[openable |-> TRUE, content |-> <<88, NL>>],
               [openable |-> TRUE, content |-> <<NL, 88>>]>>}

InitCli ==
    /\ arg \in ArgStrings(MaxArgLen)
    /\ opt \in {"-n", "-c"}
    /\ files \in CliFiles
    /\ quiet = FALSE
    /\ mode = NoMode
    /\ BUF_SIZE = MaxBufSize
    /\ overflow_checks = TRUE
    /\ faulty = FALSE
    /\ content = <<>>
    /\ idx = 1
    /\ pc = "cli"
    /\ Fresh

\* main: parse_args, that is CLIArgs::parse() with value_parser=parse_pos; a
\* rejected value makes clap print its report and exit with status 2
ParseArgs ==
    /\ pc = "cli"
    /\ parsed' = ParsePos(arg)
    /\ IF ParsePos(arg).ok
       THEN /\ mode' = ModeOf(opt, ParsePos(arg).pos)
            /\ pc' = "main"
            /\ UNCHANGED stderr
       ELSE /\ stderr' = Append(stderr, ClapError(opt, arg, ParsePos(arg).err))
            /\ pc' = "usage_error"
            /\ UNCHANGED mode
    /\ UNCHANGED <<arg, opt, content, BUF_SIZE, overflow_checks, faulty, files, quiet,
                   idx, need_newline_before, marks, fpos, scanner, lineVars, seek_pos,
                   stdout, testVars, fills, readCount, error, failure>>

NextCli ==
    \/ ParseArgs
    \/ NextMain

SpecCli == InitCli /\ [][NextCli]_vars

\* ----------------------------------------------------------------- claims
NewlineCount(c) == Cardinality({i \in 1..Len(c) : c[i] = NL})

\* the file is a sequence of newline-terminated lines
Terminated(c) == c = <<>> \/ c[Len(c)] = NL

\* lines of the file, a final unterminated piece counting as one
LineCount(c) == IF Terminated(c) THEN NewlineCount(c) ELSE NewlineCount(c) + 1

\* offset just after the n-th newline of c (n >= 1, at least n newlines)
AfterNthNewline(c, n) ==
    CHOOSE p \in 1..Len(c) :
        c[p] = NL /\ Cardinality({i \in 1..p : c[i] = NL}) = n

\* offset just after the n-th newline of c counted from the end
AfterNthNewlineFromEnd(c, n) ==
    CHOOSE p \in 1..Len(c) :
        c[p] = NL /\ Cardinality({i \in p..Len(c) : c[i] = NL}) = n

\* offset of the first byte of line j (1-based); line K+1 of K terminated
\* lines starts at the end of the file
LineStart(c, j) == IF j = 1 THEN 0 ELSE AfterNthNewline(c, j - 1)

Resolved == pc \in {"copy", "done"}
ResolvedOffset == SeekTarget(seek_pos)
LinesFrom(from) == mode.kind = "Lines" /\ mode.pos.from = from
BytesFrom(from) == mode.kind = "Bytes" /\ mode.pos.from = from

\* C1: on a file of exactly K newline-terminated lines, Lines(FromEnd(K'))
\* with K' <= K resolves to the first byte of line K-K'+1: the length for
\* K' = 0, offset 0 for K' = K, whatever BUF_SIZE is.
C1_TerminatedLinesFromEnd ==
    (Resolved /\ LinesFrom("FromEnd") /\ Terminated(content)
        /\ mode.pos.n <= NewlineCount(content))
    => /\ ResolvedOffset = LineStart(content, NewlineCount(content) - mode.pos.n + 1)
       /\ (mode.pos.n = 0 => ResolvedOffset = file_len)
       /\ (mode.pos.n = NewlineCount(content) => ResolvedOffset = 0)

C1_Witness ==
    /\ pc = "done" /\ LinesFrom("FromEnd") /\ Terminated(content)
    /\ NewlineCount(content) >= 3
    /\ mode.pos.n = 2
    /\ BUF_SIZE < file_len /\ Len(fills) >= 2
    /\ ResolvedOffset = LineStart(content, NewlineCount(content) - 1)
    /\ ResolvedOffset > 0

\* C2: on a non-empty file whose last byte is not a newline, Lines(FromEnd(O))
\* with O >= 1 resolves to the offset just after the O-th newline from the
\* end, or to 0 when the file has fewer than O newlines.
C2_UnterminatedLinesFromEnd ==
    (Resolved /\ LinesFrom("FromEnd") /\ ~Terminated(content) /\ mode.pos.n >= 1)
    => ResolvedOffset = IF NewlineCount(content) >= mode.pos.n
                        THEN AfterNthNewlineFromEnd(content, mode.pos.n)
                        ELSE 0

C2_Witness ==
    /\ pc = "done" /\ LinesFrom("FromEnd") /\ ~Terminated(content)
    /\ mode.pos.n = 1 /\ NewlineCount(content) >= 2
    /\ ResolvedOffset = AfterNthNewlineFromEnd(content, 1)
    /\ stdout = SubSeq(content, ResolvedOffset + 1, file_len)
    /\ \A i \in 1..Len(stdout) : stdout[i] # NL
    /\ Len(stdout) >= 2

\* C3: Lines(FromStart(O)) resolves to the offset just after the O-th newline
\* when the file has at least O newlines (0 for O = 0), to the length otherwise.
C3_LinesFromStart ==
    (Resolved /\ LinesFrom("FromStart"))
    => ResolvedOffset = IF mode.pos.n = 0 THEN 0
                        ELSE IF NewlineCount(content) >= mode.pos.n
                             THEN AfterNthNewline(content, mode.pos.n)
                             ELSE file_len

C3_Witness ==
    /\ pc = "done" /\ LinesFrom("FromStart")
    /\ mode.pos.n = 2 /\ NewlineCount(content) >= 3
    /\ ResolvedOffset = AfterNthNewline(content, 2)
    /\ ResolvedOffset > ReadBufLen /\ ResolvedOffset < file_len

\* C4: with or without a trailing newline, Lines(FromStart(O)) with O at least
\* the number of lines of the file resolves to the length.
C4_FromStartPastLastLine ==
    (Resolved /\ LinesFrom("FromStart") /\ mode.pos.n >= LineCount(content))
    => ResolvedOffset = file_len

C4_Witness ==
    /\ pc = "done" /\ LinesFrom("FromStart")
    /\ ~Terminated(content) /\ NewlineCount(content) >= 1
    /\ mode.pos.n = LineCount(content)
    /\ ResolvedOffset = file_len /\ stdout = <<>>

\* C5: Bytes(FromEnd(O)) resolves to L - min(L, O).
C5_BytesFromEnd ==
    (Resolved /\ BytesFrom("FromEnd"))
    => ResolvedOffset = IF mode.pos.n >= file_len THEN 0 ELSE file_len - mode.pos.n

C5_Witness ==
    /\ pc = "done" /\ BytesFrom("FromEnd")
    /\ mode.pos.n > file_len /\ file_len >= 2
    /\ ResolvedOffset = 0 /\ stdout = content

\* C6: Bytes(FromStart(O)) resolves to min(L, O); skipping more bytes than
\* the file has positions at the end of the file.
C6_BytesFromStart ==
    (Resolved /\ BytesFrom("FromStart"))
    => /\ ResolvedOffset = IF mode.pos.n >= file_len THEN file_len ELSE mode.pos.n
       /\ (mode.pos.n > file_len /\ pc = "done" => stdout = <<>> /\ fpos = file_len)

C6_Witness ==
    /\ pc = "done" /\ BytesFrom("FromStart")
    /\ mode.pos.n > file_len /\ file_len >= 2
    /\ ResolvedOffset = file_len /\ stdout = <<>>

\* C7: Lines(FromEnd(0)) resolves to the length without reading a byte of
\* the file, and nothing is output.
C7_LinesFromEndZero ==
    (Resolved /\ mode = Lines(FromEnd(0)))
    => /\ ResolvedOffset = file_len
       /\ readCount = 0
       /\ fills = <<>>
       /\ (pc = "done" => stdout = <<>>)

C7_Witness ==
    /\ pc = "done" /\ mode = Lines(FromEnd(0))
    /\ file_len >= 2 /\ ~Terminated(content)
    /\ ResolvedOffset = file_len /\ readCount = 0 /\ stdout = <<>>

Reverse(s) == [i \in 1..Len(s) |-> s[Len(s) + 1 - i]]
IsPrefix(a, b) == Len(a) <= Len(b) /\ SubSeq(b, 1, Len(a)) = a
InTest == mode = NoMode /\ pc \in {"test", "panic"}

\* C8: whatever BUF_SIZE is, a fresh BackScanner yields the L bytes of the
\* content last byte first, item i being content[L-1-i], and then None.
C8_ReverseOrder ==
    (InTest /\ scanner # NoScanner)
    => /\ pc = "test"
       /\ IsPrefix(items, Reverse(content))
       /\ \A i \in 1..Len(items) : items[i] = content[file_len + 1 - i]
       /\ (lastNext = <<None>> <=> noneCalls >= 1)
       /\ (noneCalls >= 1 => Len(items) = file_len)
       /\ \A r \in IterNext(scanner, fpos) :
             /\ ~r.panic
             /\ (r.item.some <=> Len(items) < file_len)

C8_Witness ==
    /\ pc = "test" /\ noneCalls >= 1
    /\ file_len > 2 * BUF_SIZE /\ file_len % BUF_SIZE # 0
    /\ items = Reverse(content)
    /\ NewlineCount(content) = 2 /\ content[1] = NL

\* C9: when the length is a non-zero multiple of BUF_SIZE, new loads a full
\* final chunk starting at length - BUF_SIZE, no fill loads an empty chunk,
\* and the pass yields every byte down to the first byte of the file.
C9_ExactMultiple ==
    (file_len > 0 /\ file_len % BUF_SIZE = 0 /\ fills # <<>>)
    => /\ fills[1] = <<file_len - BUF_SIZE, BUF_SIZE>>
       /\ \A i \in 1..Len(fills) : fills[i][2] >= 1
       /\ (InTest /\ noneCalls >= 1
             => Len(items) = file_len /\ items[file_len] = content[1])
       /\ (InTest /\ Len(items) = 0 => Peek(scanner) = Some(content[file_len]))

C9_Witness ==
    /\ pc = "test" /\ noneCalls >= 1
    /\ BUF_SIZE >= 2 /\ file_len = 2 * BUF_SIZE
    /\ fills = <<<<BUF_SIZE, BUF_SIZE>>, <<0, BUF_SIZE>>>>
    /\ items = Reverse(content) /\ content[1] # content[2]

\* C10: a BackScanner over an empty stream starts exhausted: every call to
\* next returns None and peek returns None before and after calls to next.
C10_EmptyStream ==
    (InTest /\ scanner # NoScanner /\ file_len = 0)
    => /\ pc = "test"
       /\ Peek(scanner) = None
       /\ \A r \in IterNext(scanner, fpos) : r.item = None /\ ~r.panic
       /\ items = <<>>
       /\ lastNext \in {<<>>, <<None>>}
       /\ (lastPeek # <<>> => lastPeek[1].result = None)

C10_Witness ==
    /\ pc = "test" /\ file_len = 0
    /\ noneCalls = 2 /\ lastNext = <<None>>
    /\ lastPeek # <<>> /\ lastPeek[1].after = 2 /\ lastPeek[1].result = None

\* -------------------------------------------------------- parse_pos claims
Digits == {"0", "1", "3", "5"}
IsDigits(s) == s # <<>> /\ \A i \in 1..Len(s) : s[i] \in Digits

\* the number a string of decimal digits denotes
RECURSIVE DecValue(_)
DecValue(s) ==
    IF s = <<>> THEN 0
    ELSE 10 * DecValue(SubSeq(s, 1, Len(s) - 1)) + ToDigit(s[Len(s)])

\* the argument without one leading sign
Remainder(a) == IF a # <<>> /\ a[1] \in {"+", "-"} THEN Tail(a) ELSE a

\* C11: "+N" parses to FromStart(N-1) for every N from 1 to usize::MAX, and
\* "+0" parses to FromStart(0).
C11_PlusIsOneBased ==
    (pc = "parsed" /\ arg # <<>> /\ arg[1] = "+" /\ IsDigits(Tail(arg))
        /\ DecValue(Tail(arg)) <= USIZE_MAX)
    => /\ parsed.ok
       /\ parsed.pos.from = "FromStart"
       /\ parsed.pos.n >= 0
       /\ parsed.pos.n = IF DecValue(Tail(arg)) = 0 THEN 0 ELSE DecValue(Tail(arg)) - 1

C11_Witness ==
    /\ pc = "parsed" /\ Len(arg) = 3 /\ arg[1] = "+" /\ IsDigits(Tail(arg))
    /\ DecValue(Tail(arg)) = USIZE_MAX
    /\ parsed = Ok(FromStart(USIZE_MAX - 1))

\* C12: a bare "N" and "-N" parse to the same position, FromEnd(N), for
\* every N up to usize::MAX, 0 included.
C12_MinusIsBare ==
    /\ (pc = "parsed" /\ IsDigits(arg) /\ DecValue(arg) <= USIZE_MAX)
          => parsed = Ok(FromEnd(DecValue(arg)))
    /\ (pc = "parsed" /\ arg # <<>> /\ arg[1] = "-" /\ IsDigits(Tail(arg))
            /\ DecValue(Tail(arg)) <= USIZE_MAX)
          => /\ parsed = Ok(FromEnd(DecValue(Tail(arg))))
             /\ parsed = ParsePos(Tail(arg))

C12_Witness ==
    /\ pc = "parsed" /\ arg = <<"-", "1", "3">>
    /\ parsed = Ok(FromEnd(13))
    /\ ParsePos(<<"1", "3">>) = parsed

\* C13: parse_pos returns an error for the empty string and for every
\* argument whose remainder after one leading sign is not a non-empty string
\* of decimal digits.
C13_RejectsMalformed ==
    (pc = "parsed" /\ ~IsDigits(Remainder(arg))) => ~parsed.ok

\* --------------------------------------------------- resolver, all positions
\* C14: the resolved offset r satisfies 0 <= r <= length, so the bytes before
\* r followed by the bytes from r on are the file content.
C14_OffsetSplitsFile ==
    Resolved
    => /\ 0 <= ResolvedOffset /\ ResolvedOffset <= file_len
       /\ SubSeq(content, 1, ResolvedOffset) \o CopyBytes(ResolvedOffset) = content
       /\ (pc = "done" => stdout = CopyBytes(ResolvedOffset))

C14_Witness ==
    /\ pc = "done" /\ LinesFrom("FromEnd")
    /\ 0 < ResolvedOffset /\ ResolvedOffset < file_len - 1
    /\ SubSeq(content, 1, ResolvedOffset) \o stdout = content
    /\ BUF_SIZE < Len(stdout)

\* C15: an empty file, O = 0 and O larger than the file are not errors: with
\* no failing stream operation the run neither fails nor panics, a position
\* on an empty file resolves to 0, and Lines(FromEnd(O)) with O above the
\* number of lines resolves to 0.
Degenerate == file_len = 0 \/ mode.pos.n = 0 \/ mode.pos.n > file_len

C15_DegenerateInputs ==
    (mode # NoMode /\ Degenerate)
    => /\ pc \notin {"error", "panic"}
       /\ (Resolved /\ file_len = 0 => ResolvedOffset = 0)
       /\ (Resolved /\ LinesFrom("FromEnd") /\ mode.pos.n > LineCount(content)
             => ResolvedOffset = 0)

\* ------------------------------------------------ failing stream operations
ResolveFailed == failure # NoFailure /\ failure[1] = "resolve"

\* C16: when a seek or a read fails in bytes_seek_pos, in lines_seek_pos or
\* in a BackScanner construction or refill, the resolver returns that error
\* and no offset, and nothing more is done on the stream.
C16_FailureIsReturned ==
    /\ [](ResolveFailed
            => /\ pc = "error"
               /\ error.msg = failure[3]
               /\ seek_pos = NoSeek
               /\ stdout = <<>>)
    /\ [][ResolveFailed => UNCHANGED <<pc, fpos, scanner, seek_pos, fills, readCount, stdout>>]_vars

C16_Witness ==
    /\ pc = "error" /\ ResolveFailed /\ failure[2] = "read"
    /\ LinesFrom("FromEnd")
    /\ Len(fills) = 1 /\ need_bytes = BUF_SIZE /\ need_bytes < file_len
    /\ seek_pos = NoSeek

\* C17 as stated: every error the resolver returns carries the operation that
\* failed and the OS error description.
C17_ErrorNamesOperation ==
    (pc = "error" /\ ResolveFailed)
    => /\ error.msg = failure[3]
       /\ \E i \in 1..Len(error.context) : error.context[i] = failure[2]

\* C17, amended: every error the resolver returns for a failed stream
\* operation is the OS error unchanged: it carries the OS error description
\* and nothing that names the operation.
C17_ErrorIsOsError ==
    (pc = "error" /\ ResolveFailed)
    => /\ error.msg = failure[3]
       /\ error.msg \in OsErrors
       /\ error.context = <<>>

C17_Witness ==
    /\ pc = "error" /\ ResolveFailed /\ failure[2] = "stream_position"
    /\ mode.kind = "Bytes"
    /\ error.msg = "Bad file descriptor (os error 9)"

\* C18: the bytes written for a file are content[r..length), r being the
\* resolved offset, wherever the resolver left the cursor.
C18_OutputFromResolved ==
    pc = "done" => stdout = SubSeq(content, ResolvedOffset + 1, file_len)

\* the cursor as the backward scan leaves it: behind the last chunk loaded
C18_Witness ==
    /\ pc = "done" /\ LinesFrom("FromEnd") /\ Len(fills) >= 2
    /\ fills[Len(fills)][1] + fills[Len(fills)][2] # ResolvedOffset
    /\ ResolvedOffset > 0
    /\ stdout = SubSeq(content, ResolvedOffset + 1, file_len)
    /\ Len(stdout) >= 2

\* ------------------------------------------------------------ several files
Opened(i) == files[i].openable
HeadersOn == ~quiet /\ Len(files) > 1

\* what the i-th call of process_file has written to stdout
Block(i) ==
    SubSeq(stdout, marks[i] + 1, IF i < Len(marks) THEN marks[i + 1] ELSE Len(stdout))

\* the header of file i and the blank line that separates it from an earlier one
Heading(i) ==
    IF HeadersOn
    THEN (IF \E j \in 1..(i - 1) : Opened(j) THEN <<NL>> ELSE <<>>)
         \o HeaderLine(FileName(i))
    ELSE <<>>

Body(i) == SubSeq(Block(i), Len(Heading(i)) + 1, Len(Block(i)))
IsSuffix(s, t) == \E r \in 0..Len(t) : s = SubSeq(t, r + 1, Len(t))
InFile == pc \in {"resolve", "fwd_loop", "back_loop", "copy"}

\* C19: with more than one file and quiet off, what is written for each opened
\* file, in argument order, is its header "==> file <==" and then bytes of
\* its content, a blank line coming before the header exactly when an earlier
\* file got a header; with quiet or with one file only content is written.
\* Nothing is written for a file that does not open.
C19_Headers ==
    \A i \in 1..Len(marks) :
        IF Opened(i)
        THEN /\ IsPrefix(Heading(i), Block(i))
             /\ IsSuffix(Body(i), files[i].content)
             /\ (i = idx /\ InFile => Block(i) = Heading(i))
             /\ (i = idx /\ pc = "done" => Body(i) = CopyBytes(ResolvedOffset))
        ELSE Block(i) = <<>>

C19_Witness ==
    /\ pc = "exit" /\ HeadersOn /\ Len(marks) = 3
    /\ ~Opened(1) /\ Opened(2) /\ Opened(3)
    /\ Block(2) = HeaderLine(FileName(2)) \o <<88>>
    /\ Block(3) = <<NL>> \o HeaderLine(FileName(3)) \o <<NL>>

\* the lines stderr holds once the first k files are done with
RECURSIVE OpenErrors(_)
OpenErrors(k) ==
    IF k = 0 THEN <<>>
    ELSE OpenErrors(k - 1)
         \o (IF Opened(k) THEN <<>> ELSE <<ErrLine(FileName(k), IoErr(OpenFault))>>)

Contains(line, part) ==
    \E k \in 0..(Len(line) - Len(part)) : SubSeq(line, k + 1, k + Len(part)) = part

IllegalCount(o) == IF o = "-c" THEN "illegal byte count -- " ELSE "illegal line count -- "

\* C21: a -c or -n value that parse_pos rejects makes the program fail before
\* any file is processed, and stderr contains "illegal byte count -- <value>"
\* for -c, "illegal line count -- <value>" for -n.
C21_IllegalCountMessage ==
    (pc # "cli" /\ idx >= 1 /\ ~parsed.ok /\ parsed # NoResult)
    => /\ pc = "usage_error"
       /\ marks = <<>> /\ stdout = <<>>
       /\ \E i \in 1..Len(stderr) : Contains(stderr[i], <<IllegalCount(opt), arg>>)

\* the part of C21 the program does satisfy
C21_FailsBeforeFiles ==
    (pc # "cli" /\ idx >= 1 /\ ~parsed.ok /\ parsed # NoResult)
    => /\ pc = "usage_error"
       /\ marks = <<>> /\ stdout = <<>>
       /\ Len(stderr) = 1

\* ------------------------------------------------------- BackScanner, peek
\* the last call of peek was made on the scanner as it is now
PeekedNow == lastPeek # <<>> /\ lastPeek[1].after = Len(items) + noneCalls

\* C22: peek returns None only when the scanner is exhausted, that is when
\* next returns None too: while bytes of the file are still unread, also
\* right after the chunk in memory has been consumed, peek returns a byte.
C22_PeekNoneOnlyWhenExhausted ==
    (InTest /\ pc = "test" /\ PeekedNow)
    => /\ (lastPeek[1].result = None
             => \A r \in IterNext(scanner, fpos) : r.item = None)
       /\ (Len(items) < file_len => lastPeek[1].result.some)

\* ------------------------------------------------- arithmetic of the resolver
\* the last n bytes of the file
LastBytes(n) == SubSeq(content, file_len - n + 1, file_len)

\* rem of the backward scan as the integers give it: the count asked for,
\* one more for a trailing newline, one less for every newline yielded
BackwardRem ==
    mode.pos.n + (IF file_len > 0 /\ Terminated(content) THEN 1 ELSE 0)
    - NewlineCount(LastBytes(need_bytes))

\* rem of the forward scan as the integers give it
ForwardRem == mode.pos.n - NewlineCount(SubSeq(content, 1, skip_byte))

\* C23: for every position up to usize::MAX and every file, the resolver's
\* arithmetic never leaves the range of its type: no panic on overflow, and
\* rem, need_bytes and skip_byte hold the values the integers give, the +1
\* for a trailing newline included.
C23_NoWrap ==
    mode # NoMode
    => /\ pc # "panic"
       /\ (pc = "back_loop"
             => rem = BackwardRem /\ need_bytes >= 0 /\ need_bytes <= file_len)
       /\ (pc = "fwd_loop"
             => rem = ForwardRem /\ rem >= 0 /\ skip_byte >= 0 /\ skip_byte <= file_len)
       /\ (Resolved /\ mode.kind = "Bytes"
             => seek_pos \in {SeekStart(Min(file_len, mode.pos.n)),
                              SeekEnd(-Min(file_len, mode.pos.n))})

\* ------------------------------------------------------- the entry cursor
\* the offset a mode resolves to when the count starts at the first byte of
\* the file
OffsetFromFirstByte ==
    LET n == mode.pos.n
        k == n + (IF file_len > 0 /\ Terminated(content) THEN 1 ELSE 0)
    IN  IF mode.kind = "Bytes"
        THEN IF mode.pos.from = "FromStart" THEN Min(file_len, n)
             ELSE file_len - Min(file_len, n)
        ELSE IF mode.pos.from = "FromStart"
             THEN IF n = 0 THEN 0
                  ELSE IF NewlineCount(content) >= n THEN AfterNthNewline(content, n)
                  ELSE file_len
             ELSE IF n = 0 THEN file_len
                  ELSE IF NewlineCount(content) >= k
                       THEN AfterNthNewlineFromEnd(content, k)
                       ELSE 0

C25_PeekConsumesNothing ==
    /\ [][lastPeek' # lastPeek
            => UNCHANGED <<scanner, fpos, readCount, fills, items, noneCalls>>]_vars
    /\ []((InTest /\ scanner # NoScanner)
            => /\ IsPrefix(items, Reverse(content))
               /\ (noneCalls >= 1 => items = Reverse(content))
               /\ (PeekedNow /\ Len(items) < file_len /\ scanner.buf_pos > 0
                     => lastPeek[1].result = Some(content[file_len - Len(items)])))

C25_Witness ==
    /\ pc = "test" /\ noneCalls >= 1
    /\ lastPeek # <<>> /\ lastPeek[1].after = 2 /\ lastPeek[1].result = Some(NL)
    /\ file_len > BUF_SIZE + 2 /\ BUF_SIZE >= 3
    /\ items = Reverse(content)
    /\ content[file_len - 2] = NL /\ NewlineCount(content) = 1

\* C26: once next has returned None, every later next returns None, peek
\* returns None, buf_pos and buf_offset_in_file stay 0, and no seek or read is
\* issued on the stream any more.
C26_ExhaustedForGood ==
    /\ [][(InTest /\ noneCalls >= 1)
            => UNCHANGED <<scanner, fpos, readCount, fills, items, lastNext>>]_vars
    /\ []((InTest /\ noneCalls >= 1)
            => /\ scanner.buf_pos = 0 /\ scanner.buf_offset_in_file = 0
               /\ lastNext = <<None>>
               /\ Peek(scanner) = None
               /\ (PeekedNow => lastPeek[1].result = None)
               /\ \A r \in IterNext(scanner, fpos) :
                     r.item = None /\ ~r.panic /\ r.fill = <<>> /\ r.nread = 0
                     /\ r.fpos = fpos /\ r.scanner = scanner)

C26_Witness ==
    /\ pc = "test" /\ noneCalls = 2
    /\ file_len >= 2 * BUF_SIZE /\ BUF_SIZE >= 2
    /\ Len(items) = file_len
    /\ lastPeek # <<>> /\ lastPeek[1].after = file_len + 1 /\ lastPeek[1].result = None
    /\ Len(fills) = file_len \div BUF_SIZE
    /\ readCount = file_len

Max(a, b) == IF a > b THEN a ELSE b
CeilDiv(a, b) == (a + b - 1) \div b

\* C27: in a reverse pass over a file of length L every refill after the
\* construction starts BUF_SIZE before the chunk held and loads exactly
\* BUF_SIZE bytes from there, one chunk is held at a time, and the pass ends
\* after exactly max(1, ceil(L / BUF_SIZE)) fills.
C27_FillsPerPass ==
    (InTest /\ scanner # NoScanner)
    => /\ Len(fills) >= 1
       /\ Len(fills) <= Max(1, CeilDiv(file_len, BUF_SIZE))
       /\ \A i \in 2..Len(fills) :
             /\ fills[i][1] = fills[i - 1][1] - BUF_SIZE
             /\ fills[i][2] = BUF_SIZE
       /\ Len(scanner.buf) = BUF_SIZE
       /\ scanner.buf_offset_in_file = fills[Len(fills)][1]
       /\ SubSeq(scanner.buf, 1, fills[Len(fills)][2])
            = FileBytes(fills[Len(fills)][1], fills[Len(fills)][2])
       /\ (noneCalls >= 1 => Len(fills) = Max(1, CeilDiv(file_len, BUF_SIZE)))

C27_Witness ==
    /\ pc = "test" /\ noneCalls >= 1
    /\ BUF_SIZE = 2 /\ file_len = 5
    /\ fills = <<<<4, 1>>, <<2, 2>>, <<0, 2>>>>
    /\ scanner.buf = SubSeq(content, 1, 2)
    /\ content[1] # content[2]

\* C28: from its construction on, through any calls of next and peek, a
\* BackScanner has buf_offset_in_file a multiple of BUF_SIZE and
\* 0 <= buf_pos <= BUF_SIZE; the assertion of next holds, and neither
\* `buf_offset_in_file -= BUF_SIZE` nor `buf_pos -= 1` underflows, a refill
\* leaving buf_pos at 1 or more.
C28_ScannerInvariant ==
    (scanner # NoScanner /\ pc \in {"test", "back_loop", "panic"})
    => /\ pc # "panic" \/ (mode # NoMode /\ mode.pos.n = USIZE_MAX)
       /\ scanner.buf_offset_in_file % BUF_SIZE = 0
       /\ scanner.buf_offset_in_file >= 0 /\ scanner.buf_offset_in_file <= file_len
       /\ 0 <= scanner.buf_pos /\ scanner.buf_pos <= BUF_SIZE
       /\ \A r \in IterNext(scanner, fpos) :
             /\ ~r.panic
             /\ r.scanner.buf_pos >= 0
             /\ (r.fill # <<>>
                   => /\ r.fill[2] >= 1
                      /\ r.scanner.buf_pos = r.fill[2] - 1
                      /\ r.scanner.buf_offset_in_file = scanner.buf_offset_in_file - BUF_SIZE)

C28_Witness ==
    /\ pc = "test" /\ Len(fills) = 3
    /\ BUF_SIZE = 2 /\ file_len = 5
    /\ scanner.buf_offset_in_file = 0 /\ scanner.buf_pos = 1
    /\ Len(items) = 4
    /\ lastPeek # <<>> /\ lastPeek[1].after = 3

\* ----------------------------------------------------- the backward scan
\* bytes the scanner has yielded: those behind its position in the file
Yielded == file_len - (scanner.buf_offset_in_file + scanner.buf_pos)

\* C29: Lines(FromEnd(O)) with O >= 1 stops at the O-th newline counted after
\* the trailing-newline adjustment: that newline is the last byte consumed,
\* no chunk lying wholly before it is loaded, and need_bytes is the number of
\* bytes yielded before it; when the scanner is exhausted first, need_bytes
\* is the length.
C29_StopsAtNewline ==
    (Resolved /\ LinesFrom("FromEnd") /\ mode.pos.n >= 1)
    => /\ seek_pos = SeekEnd(-need_bytes)
       /\ IF rem = 0
          THEN /\ Yielded = need_bytes + 1
               /\ content[file_len - need_bytes] = NL
               /\ NewlineCount(LastBytes(need_bytes + 1))
                    = mode.pos.n + (IF Terminated(content) THEN 1 ELSE 0)
               /\ \A i \in 1..Len(fills) :
                     fills[i][1] + fills[i][2] > file_len - need_bytes - 1
               /\ readCount <= need_bytes + BUF_SIZE
                               + (IF pc = "done" THEN need_bytes ELSE 0)
          ELSE /\ Yielded = file_len
               /\ need_bytes = file_len

C29_Witness ==
    /\ pc = "done" /\ mode = Lines(FromEnd(1))
    /\ BUF_SIZE = 2 /\ file_len = 6 /\ Terminated(content)
    /\ rem = 0 /\ need_bytes = 2 /\ Yielded = 3
    /\ fills = <<<<4, 2>>, <<2, 2>>>>
    /\ stdout = LastBytes(2)

\* ------------------------------------------------- integer conversions
\* the resolver needs the stream length as a usize
NeedsLength == mode.kind = "Bytes" \/ (LinesFrom("FromEnd") /\ mode.pos.n >= 1)

\* C30: when the stream length does not fit usize, or a computed offset does
\* not fit the type the seek needs, the resolver returns an error; an offset
\* it returns is the true one, never a truncated or wrapped one.
C30_NoTruncatedOffset ==
    /\ (mode # NoMode /\ pc # "resolve" /\ NeedsLength /\ file_len > USIZE_MAX)
          => /\ pc = "error"
             /\ error = IoErr(ConvFault)
             /\ seek_pos = NoSeek
    /\ (mode # NoMode /\ idx = 0 /\ Resolved) => ResolvedOffset = OffsetFromFirstByte
    /\ (mode # NoMode /\ mode.pos.n < USIZE_MAX) => pc # "panic"

====
